---- MODULE Spec2Model ----
(***************************************************************************)
(* Model of geode-cli-installer-rs: the wine registry patcher of           *)
(* src/utils/geode_installer.rs and the VDF parser and Steam library       *)
(* discovery of src/utils/steam_game_finder.rs.                            *)
(*                                                                         *)
(* A Rust String is modelled as a sequence of one-character strings, a     *)
(* byte offset into it as a 0-based index (the documents are ASCII).       *)
(***************************************************************************)
EXTENDS Integers, Sequences, FiniteSets, TLC

VARIABLES
    \* ConfigPatcher (geode_installer.rs)
    reg_exists, \* whether {prefix}/user.reg exists
    user_reg,   \* content of {prefix}/user.reg (<<>> while it does not exist)
    clock,      \* the system clock, seconds since the epoch
    writes,     \* number of fs::write calls made on user.reg
    before,     \* content of user.reg when the last patch_wine_registry began
    orig,       \* content of user.reg before the first patch_wine_registry
    ret,        \* what the last patch_wine_registry returned: "none", "Ok", "Err"
    runs,       \* number of patch_wine_registry calls made
    \* FormatParser (steam_game_finder.rs, parse_vdf_recursive)
    chars,      \* the text being parsed, content.chars()
    tokens,     \* the tokens chars was written from (<<>> for arbitrary text)
    wellformed, \* whether chars was written from tokens
    commented,  \* whether a // comment line separates each block's key from its '{'
    pos,        \* *pos, the cursor shared by all recursion levels
    stack,      \* the prefix of every active call, the outermost first
    result,     \* the map, a set of <<key, value>> with one value per key
    status,     \* "running", "returned" (the outermost call returned), "panicked"
    \* SteamGameFinder (steam_game_finder.rs) and the filesystem it reads
    fs,               \* the filesystem: directories, manifests, prefixes
    index_entries,    \* the library paths libraryfolders.vdf was written from
    steam_root,       \* self.steam_root: None or Some(path)
    library_folders,  \* self.library_folders
    prev_folders,     \* what the previous initialize_library_folders returned
    calls,            \* number of initialize_library_folders calls made
    op,               \* the last lookup made on the finder
    preferred,        \* the library_path argument of the last find_proton_prefix
    info              \* what the last lookup returned, as a GameInfo

patchVars == <<reg_exists, user_reg, clock, writes, before, orig, ret, runs>>
parseVars == <<chars, tokens, wellformed, commented, pos, stack, result, status>>
finderVars == <<fs, index_entries, steam_root, library_folders, prev_folders,
                calls, op, preferred, info>>
vars == <<patchVars, parseVars, finderVars>>

(***************************************************************************)
(* Bounds of the model.                                                    *)
(***************************************************************************)
MaxPieces == 3      \* pieces a generated registry document is made of
MaxRuns == 2        \* patch_wine_registry calls in one behaviour
MaxTicks == 2       \* seconds the clock advances in one behaviour
ClockStart == 9     \* the clock's value in the initial state
MaxLen == 4         \* characters of an arbitrary text given to the parser
MaxTokens == 4      \* tokens of a well-formed document given to the parser
MaxEntries == 2     \* library entries of a generated libraryfolders.vdf
MaxCalls == 2       \* initialize_library_folders calls in one behaviour

NotFound == -1

\* Option<T>: None is the empty sequence, Some(x) the sequence of x alone
None == <<>>
Some(x) == <<x>>

\* GameInfo before any lookup filled it (get_game_info, lines 257-263)
EmptyInfo == [game_path |-> None, proton_prefix |-> None,
              library_path |-> None, found |-> FALSE]

\* the finder is idle while the patcher or the parser is exercised
FinderIdle ==
    /\ fs = [dir |-> <<>>, index |-> None, manifest |-> <<>>, games |-> <<>>, pfx |-> <<>>]
    /\ index_entries = <<>>
    /\ steam_root = None
    /\ library_folders = <<>>
    /\ prev_folders = <<>>
    /\ calls = 0
    /\ op = "none"
    /\ preferred = None
    /\ info = EmptyInfo

(***************************************************************************)
(* str helpers: find, contains, starts_with, slicing, insert_str.          *)
(***************************************************************************)
\* s[i..] starts with sub (i is a 0-based offset)
StartsAt(s, sub, i) ==
    /\ i >= 0
    /\ i + Len(sub) <= Len(s)
    /\ \A j \in 1..Len(sub) : s[i + j] = sub[j]

\* offset of the first occurrence of sub in s at or after offset from
Find(s, sub, from) ==
    LET hits == {i \in from..(Len(s) - Len(sub)) : StartsAt(s, sub, i)}
    IN  IF hits = {} THEN NotFound
        ELSE CHOOSE i \in hits : \A k \in hits : i <= k

Contains(s, sub) == Find(s, sub, 0) # NotFound

\* s[a..b] (0-based offsets, b exclusive)
Slice(s, a, b) == SubSeq(s, a + 1, b)

InsertStr(s, at, text) == Slice(s, 0, at) \o text \o Slice(s, at, Len(s))

(***************************************************************************)
(* format!("{}", n) and format!("{:x}", n) of a u64.                       *)
(***************************************************************************)
Digits == <<"0", "1", "2", "3", "4", "5", "6", "7", "8", "9",
            "a", "b", "c", "d", "e", "f">>

RECURSIVE FormatRadix(_, _)
FormatRadix(n, radix) ==
    IF n < radix THEN <<Digits[n + 1]>>
    ELSE FormatRadix(n \div radix, radix) \o <<Digits[(n % radix) + 1]>>

\* current_timestamp() is the clock's value when it is called
current_timestamp(now) == now

\* current_hex_timestamp() reads the clock itself and formats it in hex
current_hex_timestamp(now) == FormatRadix(current_timestamp(now), 16)

(***************************************************************************)
(* ConfigPatcher.                                                          *)
(***************************************************************************)
SECTION == <<"[", "S", "o", "f", "t", "w", "a", "r", "e", "\\", "\\", "W", "i",
             "n", "e", "\\", "\\", "D", "l", "l", "O", "v", "e", "r", "r", "i",
             "d", "e", "s", "]">>
ENTRY == <<"\"", "x", "i", "n", "p", "u", "t", "1", "_", "4", "\"", "=", "\"",
           "n", "a", "t", "i", "v", "e", ",", "b", "u", "i", "l", "t", "i", "n",
           "\"">>
ENTRY_KEY == <<"\"", "x", "i", "n", "p", "u", "t", "1", "_", "4", "\"", "=">>
SectionMarker == <<"\n", "[">>

\* now1 and now2 are the clock at the two reads, of current_timestamp and of
\* current_hex_timestamp
add_dll_overrides_section(content, now1, now2) ==
    LET timestamp == current_timestamp(now1)
        hex_time == current_hex_timestamp(now2)
    IN  content \o <<"\n", "\n">> \o SECTION \o <<" ">>
            \o FormatRadix(timestamp, 10)
            \o <<"\n", "#", "t", "i", "m", "e", "=">> \o hex_time
            \o <<"\n">> \o ENTRY \o <<"\n">>

\* add_dll_entry_to_section inserting after the newline of the marker it found
add_dll_entry_to_section_after_newline(content, section, entry) ==
    LET section_pos == Find(content, section, 0)
    IN  IF section_pos = NotFound THEN content
        ELSE
          LET search_start == section_pos + Len(section)
              found == Find(content, SectionMarker, search_start)
              insert_pos == IF found # NotFound THEN found + 1 ELSE Len(content)
              entry_with_newline ==
                  IF insert_pos = Len(content)
                  THEN <<"\n">> \o entry \o <<"\n">>
                  ELSE entry \o <<"\n">>
          IN  InsertStr(content, insert_pos, entry_with_newline)

add_dll_entry_to_section(content, section, entry) ==
    LET section_pos == Find(content, section, 0)
    IN  IF section_pos = NotFound THEN content
        ELSE
          LET search_start == section_pos + Len(section)
              found == Find(content, SectionMarker, search_start)
              insert_pos == IF found # NotFound THEN found ELSE Len(content)
              entry_with_newline ==
                  IF insert_pos = Len(content)
                  THEN <<"\n">> \o entry \o <<"\n">>
                  ELSE entry \o <<"\n">>
          IN  InsertStr(content, insert_pos, entry_with_newline)

\* ensure_dll_override that adds a missing section and leaves an existing
\* section as it is
ensure_dll_override_section_only(content, now1, now2) ==
    IF Contains(content, ENTRY_KEY) THEN content
    ELSE IF ~Contains(content, SECTION)
         THEN add_dll_overrides_section(content, now1, now2)
         ELSE content

\* ensure_dll_override without its "Already configured" early return
ensure_dll_override_unchecked(content, now1, now2) ==
    IF ~Contains(content, SECTION)
    THEN add_dll_overrides_section(content, now1, now2)
    ELSE add_dll_entry_to_section(content, SECTION, ENTRY)

ensure_dll_override(content, now1, now2) ==
    IF Contains(content, ENTRY_KEY) THEN content
    ELSE IF ~Contains(content, SECTION)
         THEN add_dll_overrides_section(content, now1, now2)
         ELSE add_dll_entry_to_section(content, SECTION, ENTRY)

(***************************************************************************)
(* The registry documents a behaviour starts from: every concatenation of  *)
(* at most MaxPieces pieces.                                               *)
(***************************************************************************)
Pieces == { SECTION,
            <<"\n">>,
            <<"[", "A", "]">>,
            <<" ", "1">>,
            ENTRY_KEY,
            <<"\"", "a", "\"", "=", "\"", "b", "\"">> }

RECURSIVE DocsOf(_)
DocsOf(n) ==
    IF n = 0 THEN {<<>>}
    ELSE LET shorter == DocsOf(n - 1)
         IN  shorter \cup {d \o p : d \in shorter, p \in Pieces}

Documents == DocsOf(MaxPieces)

ClockMax == ClockStart + MaxTicks

\* the parser is idle while the patcher is exercised
ParseIdle ==
    /\ chars = <<>>
    /\ tokens = <<>>
    /\ wellformed = FALSE
    /\ commented = FALSE
    /\ pos = 0
    /\ stack = <<>>
    /\ result = {}
    /\ status = "returned"

InitPatch ==
    /\ ParseIdle
    /\ FinderIdle
    /\ reg_exists \in BOOLEAN
    /\ user_reg \in (IF reg_exists THEN Documents ELSE {<<>>})
    /\ clock = ClockStart
    /\ writes = 0
    /\ before = user_reg
    /\ orig = user_reg
    /\ ret = "none"
    /\ runs = 0

\* time passes between two calls
Tick ==
    /\ clock < ClockMax
    /\ clock' = clock + 1
    /\ UNCHANGED <<reg_exists, user_reg, writes, before, orig, ret, runs>>
    /\ UNCHANGED <<parseVars, finderVars>>

\* patch_wine_registry when user.reg does not exist
PatchMissing ==
    /\ runs < MaxRuns
    /\ ~reg_exists
    /\ ret' = "Err"
    /\ runs' = runs + 1
    /\ UNCHANGED <<reg_exists, user_reg, clock, writes, before, orig>>
    /\ UNCHANGED <<parseVars, finderVars>>

\* patch_wine_registry on an existing user.reg; the clock advances by d
\* between the read of current_timestamp and that of current_hex_timestamp
patch_wine_registry(d) ==
    /\ runs < MaxRuns
    /\ reg_exists
    /\ clock + d <= ClockMax
    /\ LET content == ensure_dll_override(user_reg, clock, clock + d)
       IN  /\ user_reg' = content
           /\ clock' = IF ~Contains(user_reg, ENTRY_KEY) /\ ~Contains(user_reg, SECTION)
                       THEN clock + d ELSE clock
    /\ before' = user_reg
    /\ writes' = writes + 1
    /\ ret' = "Ok"
    /\ runs' = runs + 1
    /\ UNCHANGED <<reg_exists, orig>>
    /\ UNCHANGED <<parseVars, finderVars>>

PatchExisting == \E d \in {0, 1} : patch_wine_registry(d)

NextPatch == Tick \/ PatchMissing \/ PatchExisting

SpecPatch == InitPatch /\ [][NextPatch]_vars

(***************************************************************************)
(* FormatParser: parse_vdf_recursive.  pos is shared by every recursion    *)
(* level; a recursive call is a prefix pushed on the stack and a return a  *)
(* pop.  c is the configuration [pos, stack, result, status].              *)
(***************************************************************************)
\* char::is_whitespace, on the ASCII white space
IsWhitespace(ch) == ch \in {" ", "\t", "\n", "\r"}

\* while *pos < chars.len() && chars[*pos].is_whitespace() { *pos += 1 }
RECURSIVE SkipWhitespace(_, _)
SkipWhitespace(cs, p) ==
    IF p < Len(cs) /\ IsWhitespace(cs[p + 1]) THEN SkipWhitespace(cs, p + 1) ELSE p

\* while *pos < chars.len() && chars[*pos] != ch { *pos += 1 }
RECURSIVE SkipUntil(_, _, _)
SkipUntil(cs, p, ch) ==
    IF p < Len(cs) /\ cs[p + 1] # ch THEN SkipUntil(cs, p + 1, ch) ELSE p

\* HashMap::insert
Insert(map, k, v) == {e \in map : e[1] # k} \cup {<<k, v>>}

\* full_key and new_prefix
FullKey(prefix, key) == IF prefix = <<>> THEN key ELSE prefix \o <<".">> \o key

\* a closing brace that is skipped instead of returning to the caller
Return_stay(c, p) == [c EXCEPT !.pos = p]

\* return from the innermost call, leaving the cursor at p
Return(c, p) ==
    LET callers == SubSeq(c.stack, 1, Len(c.stack) - 1)
    IN  [c EXCEPT !.pos = p, !.stack = callers,
                  !.status = IF callers = <<>> THEN "returned" ELSE "running"]

\* the loop body from the comment test on (lines 100-165), the cursor at p1.
\* chars[*pos] is indexed unguarded at line 109: out of bounds it panics.
Dispatch(cs, c, p1) ==
    LET n == Len(cs)
        prefix == c.stack[Len(c.stack)]
    IN  IF p1 + 1 < n /\ cs[p1 + 1] = "/" /\ cs[p1 + 2] = "/"
        THEN [c EXCEPT !.pos = SkipUntil(cs, p1, "\n")]
        ELSE IF p1 >= n THEN [c EXCEPT !.pos = p1, !.status = "panicked"]
        ELSE IF cs[p1 + 1] = "}" THEN Return(c, p1 + 1)
        ELSE IF cs[p1 + 1] = "{" THEN [c EXCEPT !.pos = p1 + 1]
        ELSE IF cs[p1 + 1] = "\""
        THEN LET key_end == SkipUntil(cs, p1 + 1, "\"")
                 key == Slice(cs, p1 + 1, key_end)
                 p2 == SkipWhitespace(cs, key_end + 1)
             IN  IF p2 < n /\ cs[p2 + 1] = "\""
                 THEN LET value_end == SkipUntil(cs, p2 + 1, "\"")
                          value == Slice(cs, p2 + 1, value_end)
                      IN  [c EXCEPT !.pos = value_end + 1,
                                    !.result = Insert(@, FullKey(prefix, key), value)]
                 ELSE IF p2 < n /\ cs[p2 + 1] = "{"
                 THEN [c EXCEPT !.pos = p2 + 1,
                                !.stack = Append(@, FullKey(prefix, key))]
                 ELSE [c EXCEPT !.pos = p2]
        ELSE [c EXCEPT !.pos = p1 + 1]

\* the loop body without the break of lines 96-98
LoopBody_no_break(cs, c) == Dispatch(cs, c, SkipWhitespace(cs, c.pos))

\* one iteration of the while loop of the innermost call (lines 91-165)
LoopBody(cs, c) ==
    LET p1 == SkipWhitespace(cs, c.pos)
    IN  IF p1 >= Len(cs)
        THEN [c EXCEPT !.pos = p1, !.stack = <<>>, !.status = "returned"]
        ELSE Dispatch(cs, c, p1)

\* while *pos < chars.len(): at the end of the text the innermost call and,
\* one after the other, its callers leave their loops and return
LoopHead(cs, c) ==
    IF c.status = "running" /\ c.pos >= Len(cs)
    THEN [c EXCEPT !.stack = <<>>, !.status = "returned"]
    ELSE c

\* the call parse_vdf_file makes: pos = 0, an empty map, an empty prefix
Start(cs) ==
    LoopHead(cs, [pos |-> 0, stack |-> << <<>> >>, result |-> {}, status |-> "running"])

RECURSIVE parse_vdf_recursive(_, _)
parse_vdf_recursive(cs, c) ==
    IF c.status # "running" THEN c
    ELSE parse_vdf_recursive(cs, LoopHead(cs, LoopBody(cs, c)))

\* the map parse_vdf_file returns for a readable file of content cs
parse_vdf_content(cs) == parse_vdf_recursive(cs, Start(cs)).result

(***************************************************************************)
(* The texts a parse starts from: every text of at most MaxLen characters  *)
(* of Alphabet, and every well-formed document of at most MaxTokens        *)
(* tokens, written with or without white space between its tokens.         *)
(***************************************************************************)
Alphabet == {"\"", "{", "}", "/", "\n", "a"}
Texts == UNION {[1..k -> Alphabet] : k \in 0..MaxLen}

Names == {<<"a">>, <<>>}
Values == {<<"v">>, <<"w">>}
TokenSet == [t : {"pair"}, k : Names, v : Values]
                \cup [t : {"open"}, k : Names, v : {<<>>}]
                \cup [t : {"close"}, k : {<<>>}, v : {<<>>}]

\* the names of the blocks open before token i
RECURSIVE OpenNames(_, _)
OpenNames(ts, i) ==
    IF i = 1 THEN <<>>
    ELSE LET o == OpenNames(ts, i - 1)
         IN  IF ts[i - 1].t = "open" THEN Append(o, ts[i - 1].k)
             ELSE IF ts[i - 1].t = "close" THEN SubSeq(o, 1, Len(o) - 1)
             ELSE o

\* every close closes an open block and every block is closed
Balanced(ts) ==
    /\ \A i \in 1..Len(ts) : ts[i].t = "close" => OpenNames(ts, i) # <<>>
    /\ OpenNames(ts, Len(ts) + 1) = <<>>

WellFormedDocs ==
    {ts \in UNION {[1..k -> TokenSet] : k \in 0..MaxTokens} : Balanced(ts)}

Quoted(str) == <<"\"">> \o str \o <<"\"">>

RECURSIVE Render(_, _)
Render(ts, sep) ==
    IF ts = <<>> THEN <<>>
    ELSE LET tk == Head(ts)
             one == IF tk.t = "pair" THEN Quoted(tk.k) \o sep \o Quoted(tk.v)
                    ELSE IF tk.t = "open" THEN Quoted(tk.k) \o sep \o <<"{">>
                    ELSE <<"}">>
         IN  one \o sep \o Render(Tail(ts), sep)

Separators == {<<>>, <<"\n", " ">>}

\* Render with a comment line between the key of every block and its '{'
RECURSIVE RenderCommented(_, _)
RenderCommented(ts, sep) ==
    IF ts = <<>> THEN <<>>
    ELSE LET tk == Head(ts)
             one == IF tk.t = "pair" THEN Quoted(tk.k) \o sep \o Quoted(tk.v)
                    ELSE IF tk.t = "open"
                    THEN Quoted(tk.k) \o sep \o <<"/", "/", "c", "\n">> \o <<"{">>
                    ELSE <<"}">>
         IN  one \o sep \o RenderCommented(Tail(ts), sep)

\* the patcher is idle while the parser is exercised
PatchIdle ==
    /\ reg_exists = FALSE
    /\ user_reg = <<>>
    /\ clock = ClockStart
    /\ writes = 0
    /\ before = <<>>
    /\ orig = <<>>
    /\ ret = "none"
    /\ runs = 0

InitParse ==
    /\ PatchIdle
    /\ FinderIdle
    /\ \/ /\ wellformed = FALSE
          /\ commented = FALSE
          /\ tokens = <<>>
          /\ chars \in Texts
       \/ /\ wellformed = TRUE
          /\ commented = FALSE
          /\ tokens \in WellFormedDocs
          /\ \E sep \in Separators : chars = Render(tokens, sep)
       \/ /\ wellformed = FALSE
          /\ commented = TRUE
          /\ tokens \in WellFormedDocs
          /\ \E sep \in Separators : chars = RenderCommented(tokens, sep)
    /\ LET c == Start(chars)
       IN  /\ pos = c.pos
           /\ stack = c.stack
           /\ result = c.result
           /\ status = c.status

\* one loop iteration of the innermost active call
ParseStep ==
    /\ status = "running"
    /\ LET c == LoopHead(chars, LoopBody(chars,
                    [pos |-> pos, stack |-> stack, result |-> result, status |-> status]))
       IN  /\ pos' = c.pos
           /\ stack' = c.stack
           /\ result' = c.result
           /\ status' = c.status
    /\ UNCHANGED <<chars, tokens, wellformed, commented>>
    /\ UNCHANGED <<patchVars, finderVars>>

NextParse == ParseStep

SpecParse == InitParse /\ [][NextParse]_vars

(***************************************************************************)
(* The filesystem SteamGameFinder reads.  fs.dir gives, for every spelling *)
(* of a library root, the directory its steamapps subdirectory is (0: it   *)
(* does not exist; two spellings with the same number name one directory,  *)
(* through "." or a symbolic link).  Per directory: fs.manifest is the     *)
(* content of appmanifest_322170.acf (None: no such file), fs.games the    *)
(* names that exist under common/, fs.pfx whether compatdata/322170/pfx    *)
(* exists.  fs.index is the content of libraryfolders.vdf in directory 1.  *)
(***************************************************************************)
GD_APP_ID == <<"3", "2", "2", "1", "7", "0">>
Steamapps == <<"s", "t", "e", "a", "m", "a", "p", "p", "s">>
LibraryFileName == <<"l", "i", "b", "r", "a", "r", "y", "f", "o", "l", "d", "e",
                     "r", "s", ".", "v", "d", "f">>
LibraryfoldersDot == <<"l", "i", "b", "r", "a", "r", "y", "f", "o", "l", "d", "e",
                       "r", "s", ".">>
DotPath == <<".", "p", "a", "t", "h">>
Common == <<"c", "o", "m", "m", "o", "n">>
Compatdata == <<"c", "o", "m", "p", "a", "t", "d", "a", "t", "a">>
Pfx == <<"p", "f", "x">>
InstalldirKey == <<"A", "p", "p", "S", "t", "a", "t", "e", ".", "i", "n", "s", "t",
                   "a", "l", "l", "d", "i", "r">>

\* format!("appmanifest_{}.acf", app_id)
ManifestName(app_id) ==
    <<"a", "p", "p", "m", "a", "n", "i", "f", "e", "s", "t", "_">> \o app_id
        \o <<".", "a", "c", "f">>

\* PathBuf::join (Path::push): an absolute component replaces the path
Join(base, comp) ==
    IF comp # <<>> /\ comp[1] = "/" THEN comp
    ELSE IF base = <<>> \/ base[Len(base)] = "/" THEN base \o comp
    ELSE base \o <<"/">> \o comp

\* the primary root, another spelling of it, and two further library roots
PrimaryRoot == <<"/", "s">>
PrimaryAlias == <<"/", "s", "/", ".">>
LibraryL == <<"/", "l">>
LibraryM == <<"/", "m">>
Spellings == {PrimaryRoot, PrimaryAlias, LibraryL, LibraryM}

\* the spelling of a library root whose steamapps directory path l is, or None
RootOf(l) ==
    IF \E r \in Spellings : Join(r, Steamapps) = l
    THEN Some(CHOOSE r \in Spellings : Join(r, Steamapps) = l)
    ELSE None

\* the directory the library path l is (0: none)
DirOf(f, l) == IF RootOf(l) = None THEN 0 ELSE f.dir[RootOf(l)[1]]

\* Path::exists
Exists(f, path) ==
    \E r \in Spellings :
        LET l == Join(r, Steamapps)
            d == f.dir[r]
        IN  /\ d # 0
            /\ \/ path = l
               \/ path = Join(l, LibraryFileName) /\ d = 1 /\ f.index # None
               \/ path = Join(l, ManifestName(GD_APP_ID)) /\ f.manifest[d] # None
               \/ \E x \in f.games[d] : path = Join(Join(l, Common), x)
               \/ path = Join(Join(Join(l, Compatdata), GD_APP_ID), Pfx) /\ f.pfx[d]

\* fs::read_to_string of libraryfolders.vdf or of an appmanifest
ReadToString(f, path) ==
    LET r == CHOOSE r \in Spellings :
                 f.dir[r] # 0 /\ path \in {Join(Join(r, Steamapps), LibraryFileName),
                                           Join(Join(r, Steamapps), ManifestName(GD_APP_ID))}
    IN  IF path = Join(Join(r, Steamapps), LibraryFileName)
        THEN f.index[1]
        ELSE f.manifest[f.dir[r]][1]

parse_vdf_file(f, file_path) ==
    IF ~Exists(f, file_path) THEN {}
    ELSE parse_vdf_content(ReadToString(f, file_path))

(***************************************************************************)
(* SteamGameFinder.                                                        *)
(***************************************************************************)
\* lines 193-205: keep the first of the folders with the same path string
RECURSIVE RemoveDuplicates(_, _)
RemoveDuplicates(folders, unique_folders) ==
    IF folders = <<>> THEN unique_folders
    ELSE LET folder == Head(folders)
         IN  RemoveDuplicates(Tail(folders),
                 IF \E i \in 1..Len(unique_folders) : unique_folders[i] = folder
                 THEN unique_folders
                 ELSE Append(unique_folders, folder))

\* lines 181-190: the loop over data.iter(), which visits the entries in order
RECURSIVE PushLibraries(_, _, _)
PushLibraries(f, order, folders) ==
    IF order = <<>> THEN folders
    ELSE LET key == Head(order)[1]
             value == Head(order)[2]
             path == Join(value, Steamapps)
         IN  PushLibraries(f, Tail(order),
                 IF /\ \/ StartsAt(key, LibraryfoldersDot, 0) /\ Contains(key, DotPath)
                       \/ Contains(key, DotPath)
                    /\ Exists(f, path)
                 THEN Append(folders, path)
                 ELSE folders)

\* the orders in which a HashMap of these entries can be iterated
Orders(map) ==
    {o \in [1..Cardinality(map) -> map] :
        \A i \in 1..Cardinality(map), j \in 1..Cardinality(map) : i # j => o[i] # o[j]}

\* the map initialize_library_folders iterates: the parsed libraryfolders.vdf
LibraryData(f, root) ==
    IF root = None THEN {}
    ELSE parse_vdf_file(f, Join(Join(root[1], Steamapps), LibraryFileName))

\* order is the order in which data.iter() yields the entries of the map
initialize_library_folders(f, root, order) ==
    IF root = None THEN <<>>
    ELSE LET folders == <<Join(root[1], Steamapps)>>
             library_file == Join(Join(root[1], Steamapps), LibraryFileName)
         IN  RemoveDuplicates(
                 IF Exists(f, library_file) THEN PushLibraries(f, order, folders)
                 ELSE folders,
                 <<>>)

\* find_game_by_appid without the game_path.exists() test
RECURSIVE find_game_by_appid_unchecked(_, _, _)
find_game_by_appid_unchecked(f, folders, app_id) ==
    IF folders = <<>> THEN None
    ELSE LET library_path == Head(folders)
             acf_file == Join(library_path, ManifestName(app_id))
             acf_data == parse_vdf_file(f, acf_file)
             dirs == {e \in acf_data : e[1] = InstalldirKey}
         IN  IF Exists(f, acf_file) /\ dirs # {}
             THEN Some(<<Join(Join(library_path, Common), (CHOOSE e \in dirs : TRUE)[2]),
                         library_path>>)
             ELSE find_game_by_appid_unchecked(f, Tail(folders), app_id)

RECURSIVE find_game_by_appid(_, _, _)
find_game_by_appid(f, folders, app_id) ==
    IF folders = <<>> THEN None
    ELSE LET library_path == Head(folders)
             acf_file == Join(library_path, ManifestName(app_id))
             acf_data == parse_vdf_file(f, acf_file)
             dirs == {e \in acf_data : e[1] = InstalldirKey}
             game_path == Join(Join(library_path, Common), (CHOOSE e \in dirs : TRUE)[2])
         IN  IF Exists(f, acf_file) /\ dirs # {} /\ Exists(f, game_path)
             THEN Some(<<game_path, library_path>>)
             ELSE find_game_by_appid(f, Tail(folders), app_id)

CompatdataPath(lib_path, app_id) == Join(Join(Join(lib_path, Compatdata), app_id), Pfx)

\* lines 243-251: the scan of self.library_folders
RECURSIVE ScanPrefixes(_, _, _)
ScanPrefixes(f, folders, app_id) ==
    IF folders = <<>> THEN None
    ELSE IF Exists(f, CompatdataPath(Head(folders), app_id))
         THEN Some(CompatdataPath(Head(folders), app_id))
         ELSE ScanPrefixes(f, Tail(folders), app_id)

\* find_proton_prefix without the look at library_path
find_proton_prefix_scan_only(f, folders, app_id, library_path) ==
    ScanPrefixes(f, folders, app_id)

find_proton_prefix(f, folders, app_id, library_path) ==
    IF library_path # None /\ Exists(f, CompatdataPath(library_path[1], app_id))
    THEN Some(CompatdataPath(library_path[1], app_id))
    ELSE ScanPrefixes(f, folders, app_id)

get_game_info(f, folders, app_id) ==
    LET game == find_game_by_appid(f, folders, app_id)
    IN  IF game = None THEN EmptyInfo
        ELSE [game_path |-> Some(game[1][1]),
              library_path |-> Some(game[1][2]),
              found |-> TRUE,
              proton_prefix |-> find_proton_prefix(f, folders, app_id, Some(game[1][2]))]

(***************************************************************************)
(* The filesystems a finder is built on.                                   *)
(***************************************************************************)
\* libraryfolders.vdf listing the library roots of entries, in this order
RECURSIVE EntryBlocks(_, _)
EntryBlocks(entries, i) ==
    IF i > Len(entries) THEN <<>>
    ELSE Quoted(FormatRadix(i - 1, 10)) \o <<"\n", "{", "\n">>
            \o Quoted(<<"p", "a", "t", "h">>) \o <<" ">> \o Quoted(entries[i]) \o <<"\n">>
            \o (IF i = 1
                THEN Quoted(<<"l", "a", "b", "e", "l">>) \o <<" ">> \o Quoted(<<>>) \o <<"\n">>
                ELSE <<>>)
            \o <<"}", "\n">> \o EntryBlocks(entries, i + 1)

IndexText(entries) ==
    Quoted(<<"l", "i", "b", "r", "a", "r", "y", "f", "o", "l", "d", "e", "r", "s">>)
        \o <<"\n", "{", "\n">> \o EntryBlocks(entries, 1) \o <<"}", "\n">>

\* appmanifest_322170.acf, with the installdir key when installdir is Some
ManifestText(installdir) ==
    Quoted(<<"A", "p", "p", "S", "t", "a", "t", "e">>) \o <<"\n", "{", "\n">>
        \o Quoted(<<"a", "p", "p", "i", "d">>) \o <<" ">> \o Quoted(GD_APP_ID) \o <<"\n">>
        \o (IF installdir = None THEN <<>>
            ELSE Quoted(<<"i", "n", "s", "t", "a", "l", "l", "d", "i", "r">>) \o <<" ">>
                    \o Quoted(installdir[1]) \o <<"\n">>)
        \o <<"}", "\n">>

GameDir == <<"G", "D">>
Dirs == {1, 2, 3}

FinderStart ==
    /\ library_folders = <<>>
    /\ prev_folders = <<>>
    /\ calls = 0
    /\ op = "none"
    /\ preferred = None
    /\ info = EmptyInfo

\* discovery: any index of at most MaxEntries entries, libraries that exist
\* or not, a second library root that may be a link to the first
InitLibs ==
    /\ PatchIdle
    /\ ParseIdle
    /\ FinderStart
    /\ steam_root \in {None, Some(PrimaryRoot)}
    /\ index_entries \in UNION {[1..k -> Spellings] : k \in 0..MaxEntries}
    /\ \E dl \in {0, 2}, dm \in {0, 2, 3}, has_index \in BOOLEAN :
          /\ steam_root = None => (dl = 0 /\ dm = 0 /\ ~has_index)
          /\ ~has_index => index_entries = <<>>
          /\ fs = [dir |-> [r \in Spellings |->
                               IF r \in {PrimaryRoot, PrimaryAlias} THEN 1
                               ELSE IF r = LibraryL THEN dl ELSE dm],
                   index |-> IF has_index THEN Some(IndexText(index_entries)) ELSE None,
                   manifest |-> [d \in Dirs |-> None],
                   games |-> [d \in Dirs |-> {}],
                   pfx |-> [d \in Dirs |-> FALSE]]

\* resolution: three libraries, any manifests, install directories, prefixes
InitResolve ==
    /\ PatchIdle
    /\ ParseIdle
    /\ FinderStart
    /\ steam_root = Some(PrimaryRoot)
    /\ index_entries = <<LibraryL, LibraryM>>
    /\ \E m \in [Dirs -> {None, Some(ManifestText(None)), Some(ManifestText(Some(GameDir)))}],
          g \in [Dirs -> SUBSET {GameDir}],
          x \in [Dirs -> BOOLEAN] :
          fs = [dir |-> [r \in Spellings |->
                            IF r \in {PrimaryRoot, PrimaryAlias} THEN 1
                            ELSE IF r = LibraryL THEN 2 ELSE 3],
                index |-> Some(IndexText(index_entries)),
                manifest |-> m, games |-> g, pfx |-> x]

\* SteamGameFinder::new, or a later invocation of initialize_library_folders
new(limit) ==
    /\ calls < limit
    /\ \E order \in Orders(LibraryData(fs, steam_root)) :
          library_folders' = initialize_library_folders(fs, steam_root, order)
    /\ prev_folders' = library_folders
    /\ calls' = calls + 1
    /\ op' = "new"
    /\ preferred' = None
    /\ info' = EmptyInfo
    /\ UNCHANGED <<fs, index_entries, steam_root>>
    /\ UNCHANGED <<patchVars, parseVars>>

CallFindGameByAppid ==
    /\ calls >= 1
    /\ LET game == find_game_by_appid(fs, library_folders, GD_APP_ID)
       IN  info' = IF game = None THEN EmptyInfo
                   ELSE [EmptyInfo EXCEPT !.game_path = Some(game[1][1]),
                                          !.library_path = Some(game[1][2]),
                                          !.found = TRUE]
    /\ op' = "find_game_by_appid"
    /\ preferred' = None
    /\ UNCHANGED <<fs, index_entries, steam_root, library_folders, prev_folders, calls>>
    /\ UNCHANGED <<patchVars, parseVars>>

CallFindProtonPrefix ==
    /\ calls >= 1
    /\ \E library_path \in {None} \cup {Some(library_folders[i]) : i \in 1..Len(library_folders)} :
          /\ preferred' = library_path
          /\ info' = [EmptyInfo EXCEPT !.proton_prefix =
                         find_proton_prefix(fs, library_folders, GD_APP_ID, library_path)]
    /\ op' = "find_proton_prefix"
    /\ UNCHANGED <<fs, index_entries, steam_root, library_folders, prev_folders, calls>>
    /\ UNCHANGED <<patchVars, parseVars>>

CallGetGameInfo ==
    /\ calls >= 1
    /\ info' = get_game_info(fs, library_folders, GD_APP_ID)
    /\ op' = "get_game_info"
    /\ preferred' = None
    /\ UNCHANGED <<fs, index_entries, steam_root, library_folders, prev_folders, calls>>
    /\ UNCHANGED <<patchVars, parseVars>>

NextLibs == new(MaxCalls)

SpecLibs == InitLibs /\ [][NextLibs]_vars

NextResolve ==
    \/ new(1)
    \/ CallFindGameByAppid
    \/ CallFindProtonPrefix
    \/ CallGetGameInfo

SpecResolve == InitResolve /\ [][NextResolve]_vars

(***************************************************************************)
(* Claims about SteamGameFinder, checked under SpecLibs and SpecResolve.   *)
(***************************************************************************)
\* C3: the sequence initialize_library_folders returns never holds two
\* elements that are the same directory, whatever libraryfolders.vdf lists.
C3_NoDuplicateDirectories ==
    calls >= 1 =>
        \A i \in 1..Len(library_folders), j \in 1..Len(library_folders) :
            i < j => DirOf(fs, library_folders[i]) # DirOf(fs, library_folders[j])

\* the existing library directories the index names, in the order of its entries
RECURSIVE ListedLibraries(_)
ListedLibraries(entries) ==
    IF entries = <<>> THEN <<>>
    ELSE (IF fs.dir[Head(entries)] # 0
          THEN <<Head(entries) \o <<"/">> \o Steamapps>> ELSE <<>>)
             \o ListedLibraries(Tail(entries))

\* C8: initialize_library_folders is deterministic: every invocation on the
\* same root and filesystem returns the same sequence, root/steamapps first,
\* then the existing library directories the index names in the order of its
\* entries (a path listed before kept once).
C8_Deterministic ==
    /\ (calls >= 1 /\ steam_root # None) =>
           library_folders =
               RemoveDuplicates(<<steam_root[1] \o <<"/">> \o Steamapps>>
                                    \o ListedLibraries(index_entries), <<>>)
    /\ calls >= 2 => library_folders = prev_folders

\* library i has a manifest whose installdir exists under its common/
Qualifies(i) ==
    LET d == DirOf(fs, library_folders[i])
    IN  /\ fs.manifest[d] = Some(ManifestText(Some(GameDir)))
        /\ GameDir \in fs.games[d]

Qualifying == {i \in 1..Len(library_folders) : Qualifies(i)}

FirstOf(indices) == CHOOSE i \in indices : \A k \in indices : i <= k

\* C4: find_game_by_appid returns the install directory and the library of
\* the first library, in list order, that has an appmanifest whose installdir
\* X makes {library}/common/X exist; libraries with no manifest, no
\* installdir key or a missing directory are skipped; it returns None only if
\* no library qualifies.
C4_FirstQualifyingLibrary ==
    op = "find_game_by_appid" =>
        IF Qualifying = {} THEN info.game_path = None /\ info.library_path = None
        ELSE LET library == library_folders[FirstOf(Qualifying)]
             IN  /\ info.library_path = Some(library)
                 /\ info.game_path = Some(library \o <<"/">> \o Common \o <<"/">> \o GameDir)

\* the first library was skipped, its manifest naming a directory that does
\* not exist, and a later library was returned
C4_Witness ==
    /\ op = "find_game_by_appid"
    /\ info.found
    /\ info.library_path # Some(library_folders[1])
    /\ fs.manifest[DirOf(fs, library_folders[1])] = Some(ManifestText(Some(GameDir)))
    /\ GameDir \notin fs.games[DirOf(fs, library_folders[1])]

HasPrefix(library) == fs.pfx[DirOf(fs, library)]

WithPrefix == {i \in 1..Len(library_folders) : HasPrefix(library_folders[i])}

PrefixOf(library) ==
    library \o <<"/">> \o Compatdata \o <<"/">> \o GD_APP_ID \o <<"/">> \o Pfx

\* the first existing prefix in list order, or None
FirstPrefix ==
    IF WithPrefix = {} THEN None
    ELSE Some(PrefixOf(library_folders[FirstOf(WithPrefix)]))

\* C10: find_proton_prefix returns the preferred library's
\* compatdata/<appId>/pfx when a preferred library is given and that
\* directory exists, even if an earlier library has a prefix too; otherwise
\* the first existing one in list order; and None when no library has one,
\* also for get_game_info when the install was found.
C10_PreferredThenFirst ==
    /\ op = "find_proton_prefix" =>
           info.proton_prefix =
               IF preferred # None /\ HasPrefix(preferred[1])
               THEN Some(PrefixOf(preferred[1]))
               ELSE FirstPrefix
    /\ (op = "get_game_info" /\ info.found) =>
           info.proton_prefix =
               IF HasPrefix(info.library_path[1])
               THEN Some(PrefixOf(info.library_path[1]))
               ELSE FirstPrefix

\* the preferred library's prefix was returned although the first library of
\* the list has a prefix too
C10_Witness ==
    /\ op = "find_proton_prefix"
    /\ preferred # None
    /\ preferred # Some(library_folders[1])
    /\ HasPrefix(library_folders[1])
    /\ info.proton_prefix = Some(PrefixOf(preferred[1]))

(***************************************************************************)
(* Claims about FormatParser, checked under SpecParse.                     *)
(***************************************************************************)
\* the names joined with '.'
RECURSIVE JoinDots(_)
JoinDots(names) ==
    IF names = <<>> THEN <<>>
    ELSE IF Len(names) = 1 THEN names[1]
    ELSE names[1] \o <<".">> \o JoinDots(Tail(names))

RECURSIVE DropLeadingEmpty(_)
DropLeadingEmpty(names) ==
    IF names # <<>> /\ Head(names) = <<>> THEN DropLeadingEmpty(Tail(names)) ELSE names

PairIndices(ts) == {i \in 1..Len(ts) : ts[i].t = "pair"}

\* the names of the blocks enclosing pair i, then its own name
PairPath(ts, i) == Append(OpenNames(ts, i), ts[i].k)

\* the key of pair i when leading empty names are left out of the join
JoinedKey(ts, i) == JoinDots(DropLeadingEmpty(PairPath(ts, i)))

\* C2: for a well-formed document the parse returns exactly the document's
\* key/value pairs, each key being the '.'-joined names of the enclosing
\* blocks followed by the pair's own name.
C2_AllPairs ==
    (wellformed /\ status = "returned") =>
        result = {<<JoinDots(PairPath(tokens, i)), tokens[i].v>> : i \in PairIndices(tokens)}

\* C2 as amended: the parse returns a map holding, for every pair of the
\* document, the value of the last pair with the same key and nothing else;
\* a key is the '.'-joined names of the enclosing blocks and the pair's own
\* name, leading empty names left out.
C2_LastPairPerKey ==
    (wellformed /\ status = "returned") =>
        result = {<<JoinedKey(tokens, i), tokens[i].v>> :
                     i \in {j \in PairIndices(tokens) :
                              \A l \in PairIndices(tokens) :
                                  l > j => JoinedKey(tokens, l) # JoinedKey(tokens, j)}}

\* a document was parsed in which a pair follows a closed nested block
C2_Witness ==
    /\ wellformed
    /\ status = "returned"
    /\ \E i \in PairIndices(tokens) : i > 1 /\ tokens[i - 1].t = "close"
    /\ result # {}

\* C12: every '{' opens a nested block whose pairs are recorded under the
\* current prefix extended by the most recently read key, and the matching
\* '}' returns to the enclosing level, also when a // comment separates the
\* key from the '{': a document written that way parses to the map of its
\* pairs (the last pair of each key, keys joined as in C2 as amended).
C12_BraceAfterComment ==
    (commented /\ status = "returned") =>
        result = {<<JoinedKey(tokens, i), tokens[i].v>> :
                     i \in {j \in PairIndices(tokens) :
                              \A l \in PairIndices(tokens) :
                                  l > j => JoinedKey(tokens, l) # JoinedKey(tokens, j)}}

\* C9: the parse never fails: on every text, every loop iteration, at every
\* recursion level, reads no index at or beyond the end of the character
\* sequence (it does not panic) and moves the cursor strictly forward, the
\* cursor never passing the end of the text by more than one: the scan ends
\* after at most Len(chars) + 1 iterations.
C9_NeverFails ==
    [][status' # "panicked" /\ pos' > pos /\ pos' <= Len(chars) + 1]_vars

\* the scan of a text with an unterminated quote ended with the cursor past
\* the end of the text
C9_Witness ==
    /\ ~wellformed
    /\ status = "returned"
    /\ pos > Len(chars)
    /\ Len(chars) = MaxLen

(***************************************************************************)
(* Claims about ConfigPatcher, checked under SpecPatch.                    *)
(***************************************************************************)
Times == ClockStart..ClockMax

\* number of occurrences of sub in s
Count(s, sub) == Cardinality({i \in 0..(Len(s) - Len(sub)) : StartsAt(s, sub, i)})

\* C1: ensure_dll_override is idempotent: applied to the document a patch
\* produced, at any time, it returns that document unchanged; and a document
\* that lacked the key "xinput1_4"= at first holds exactly one occurrence of
\* the override entry after any number of patches.
C1_Idempotent ==
    ret = "Ok" =>
        /\ \A n1 \in Times, n2 \in Times :
               ensure_dll_override(user_reg, n1, n2) = user_reg
        /\ ~Contains(orig, ENTRY_KEY) => Count(user_reg, ENTRY) = 1

\* two patches were made on a document that had the section but not the key
C1_Witness ==
    /\ ret = "Ok"
    /\ runs = 2
    /\ ~Contains(orig, ENTRY_KEY)
    /\ Contains(orig, SECTION)
    /\ user_reg # orig

\* the offset just after the first section header of s
HeaderEnd(s) == Find(s, SECTION, 0) + Len(SECTION)

\* C5: on a document with the section header and without the entry key, the
\* patch inserts the entry line at an offset p after the section header such
\* that no section marker (newline, '[') starts between the header and p and
\* p is the offset of a section marker or the end of the document; the
\* original document is kept, in order, before and after the inserted text.
C5_InsertedInSection ==
    (ret = "Ok" /\ Contains(before, SECTION) /\ ~Contains(before, ENTRY_KEY)) =>
        \E p \in HeaderEnd(before)..Len(before) :
            /\ \A q \in HeaderEnd(before)..(p - 1) : ~StartsAt(before, SectionMarker, q)
            /\ p = Len(before) \/ StartsAt(before, SectionMarker, p)
            /\ \E ins \in {ENTRY \o <<"\n">>, <<"\n">> \o ENTRY \o <<"\n">>} :
                   user_reg = Slice(before, 0, p) \o ins \o Slice(before, p, Len(before))

\* a patch inserted the entry before a section header that follows the section
C5_Witness ==
    /\ ret = "Ok"
    /\ Contains(before, SECTION)
    /\ ~Contains(before, ENTRY_KEY)
    /\ Find(before, SectionMarker, HeaderEnd(before)) # NotFound
    /\ Len(user_reg) = Len(before) + Len(ENTRY) + 1

\* the block the claim describes, for the timestamp t
SectionBlock(t) ==
    <<"\n", "\n">> \o SECTION \o <<" ">> \o FormatRadix(t, 10)
        \o <<"\n", "#", "t", "i", "m", "e", "=">> \o FormatRadix(t, 16)
        \o <<"\n">> \o ENTRY \o <<"\n">>

\* C6: on a document with neither the entry key nor the section header, the
\* patch appends to the unchanged original one block: a blank-line separator,
\* the header with a decimal timestamp, a #time= line with the same timestamp
\* in hexadecimal, and one entry line.
C6_SameTimestamp ==
    (ret = "Ok" /\ ~Contains(before, SECTION) /\ ~Contains(before, ENTRY_KEY)) =>
        \E t \in Times : user_reg = before \o SectionBlock(t)

\* C7: patch_wine_registry does not write user.reg when the file already
\* contains the entry key.
C7_NoWriteWhenKeyPresent ==
    [][(reg_exists /\ Contains(user_reg, ENTRY_KEY)) => writes' = writes]_vars

\* C11: after ensure_dll_override returned, on any document, the document
\* contains the entry "xinput1_4"="native,builtin".
C11_EntryPresent ==
    ret = "Ok" => Contains(user_reg, ENTRY)

\* C11 as amended: on a document that did not contain the key "xinput1_4"=
\* the patch leaves a document that contains the entry
\* "xinput1_4"="native,builtin"; a document that contained the key already,
\* with whatever value, is left as it was.
C11_EntryPresentUnlessKey ==
    ret = "Ok" =>
        /\ ~Contains(before, ENTRY_KEY) => Contains(user_reg, ENTRY)
        /\ Contains(before, ENTRY_KEY) => user_reg = before

\* a patch put the entry into a section that was there without the key
C11_Witness ==
    /\ ret = "Ok"
    /\ runs = 1
    /\ Contains(before, SECTION)
    /\ ~Contains(before, ENTRY_KEY)
    /\ Contains(user_reg, ENTRY)

\* C13: when the patch inserts the entry into an existing section, the entry
\* is on a line of its own: a newline or the start of the document comes
\* right before it and a newline right after it.
C13_EntryOnOwnLine ==
    (ret = "Ok" /\ Contains(before, SECTION) /\ ~Contains(before, ENTRY_KEY)) =>
        \E i \in 0..(Len(user_reg) - Len(ENTRY)) :
            /\ StartsAt(user_reg, ENTRY, i)
            /\ i = 0 \/ user_reg[i] = "\n"
            /\ StartsAt(user_reg, <<"\n">>, i + Len(ENTRY))

====
